---- MODULE Spec2Model ----
(***************************************************************************)
(* The shared-buffer polling channel of pglite                             *)
(* (src/spike-memory-polling/pglite-comm-polling.h): the input and output  *)
(* buffers, the control block, the accessors the host (JavaScript) calls   *)
(* and the read/write/flush adapter the engine (WASM) calls.               *)
(*                                                                         *)
(* Each C function is an operator from a channel value (the three global   *)
(* records) to the channel after the call together with the value the call *)
(* returns; each action applies one function to the globals.               *)
(***************************************************************************)
EXTENDS Integers, Sequences, FiniteSets, TLC

(***************************************************************************)
(* Bounds.  PGLITE_BUFFER_SIZE is 64 * 1024 in the source (line 31); the   *)
(* model keeps the name and checks the channel with a small capacity.      *)
(***************************************************************************)
PGLITE_BUFFER_SIZE == 2

\* Most bytes moved (read plus written) between two resets: the cumulative
\* counters stay far below 2^32, where they would wrap.
MaxTotal == 3

\* The byte values the model distinguishes.
Byte == {0, 1}

(***************************************************************************)
(* Program constants.                                                      *)
(***************************************************************************)
BUFFER_EMPTY == 0
BUFFER_READY == 1
BUFFER_PROCESSING == 2

OP_NONE == 0
OP_READ_REQUEST == 1
OP_WRITE_READY == 2
OP_COMPLETED == 3
OP_ERROR == 4

(***************************************************************************)
(* size_t on the wasm32 target the header is built for is 32 bits wide.    *)
(* A size_t value is kept as two 16-bit halves [hi, lo], so that the sum   *)
(* in the capacity test of write is computed modulo 2^32 as the build      *)
(* computes it.                                                            *)
(***************************************************************************)
HALF == 2^16

Word(hi, lo) == [hi |-> hi, lo |-> lo]

\* The size_t of a number below 2^31.
ToWord(n) == Word(n \div HALF, n % HALF)

\* The number a size_t holds, for values below 2^31.
WordVal(w) == w.hi * HALF + w.lo

\* a + b in size_t arithmetic: the carry out of the high half is dropped.
SizeAdd(a, b) ==
    LET lo == a.lo + b.lo
        hi == a.hi + b.hi + (lo \div HALF)
    IN Word(hi % HALF, lo % HALF)

\* a > n for a size_t a and a number n below 2^31.
SizeGreater(a, n) == a.hi > n \div HALF \/ (a.hi = n \div HALF /\ a.lo > n % HALF)

\* The largest object (and so the largest buffer a caller can pass) on
\* wasm32: PTRDIFF_MAX = 2^31 - 1.
PTRDIFF_MAX == Word(32767, 65535)

Min(a, b) == IF a < b THEN a ELSE b

DataIndex == 0 .. (PGLITE_BUFFER_SIZE - 1)

\* The byte strings of length 0 .. n.
Payloads(n) == UNION {[1 .. k -> Byte] : k \in 0 .. n}

IsPrefix(s, t) == Len(s) <= Len(t) /\ SubSeq(t, 1, Len(s)) = s

\* data[from .. from+n) of a buffer's data region, as a byte string.
Bytes(data, from, n) == [i \in 1 .. n |-> data[from + i - 1]]

\* memcpy(data + at, src, n): the data region with src[0 .. n) copied to offset at.
CopyIn(data, at, src, n) ==
    [i \in DataIndex |-> IF at <= i /\ i < at + n THEN src[i - at + 1] ELSE data[i]]

VARIABLES
    g_input_buffer,     \* PGliteBuffer: [status, length, data]
    g_output_buffer,    \* PGliteBuffer: [status, length, data]
    g_control,          \* PGliteControl
    call,               \* the call made last: [op, arg], arg the length argument
                        \* (a size_t [hi, lo] for write, 0 where there is none)
    result,             \* the value it returned (0 for a void function)
    payload,            \* history: the payload of the latest signal_input_ready
    drained,            \* history: the bytes read has returned since that signal
    written,            \* history: the bytes of the successful writes since the
                        \* last acknowledge or reset
    g_pglite_read_fptr, \* pglite-trampoline.h: table index of the read callback
    g_pglite_write_fptr, \* pglite-trampoline.h: table index of the write callback
    wasmTable,          \* the module's function table: index -> NULL or FUNC
    invoked             \* the callback invocations the call made last has made:
                        \* [fptr, buffer, length, ret] each

vars == <<g_input_buffer, g_output_buffer, g_control, call, result,
          payload, drained, written,
          g_pglite_read_fptr, g_pglite_write_fptr, wasmTable, invoked>>

\* The state of the pointer-table transport of pglite-trampoline.h.  The
\* polling channel and the test module do not touch it.
trampoline == <<g_pglite_read_fptr, g_pglite_write_fptr, wasmTable, invoked>>

\* An empty slot of the function table, and a slot that holds a function.
NULL == "null"

FUNC == "function"

\* The table slots reserved for the two callbacks.
PGLITE_READ_SLOT == 1

PGLITE_WRITE_SLOT == 2

\* The indices of the function table: slot 0, which never holds a function,
\* and the two reserved slots.
TableIndex == 0 .. PGLITE_WRITE_SLOT

\* static volatile uint32_t g_pglite_read_fptr = 0, g_pglite_write_fptr = 0;
\* the reserved slots of a fresh instance are empty until the host
\* populates them.
InitTrampoline ==
    /\ g_pglite_read_fptr = 0
    /\ g_pglite_write_fptr = 0
    /\ wasmTable = [i \in TableIndex |-> NULL]
    /\ invoked = <<>>

\* The channel: the three global records.
Channel == [input |-> g_input_buffer, output |-> g_output_buffer, control |-> g_control]

ZeroData == [i \in DataIndex |-> 0]

(***************************************************************************)
(* Exported functions for the host.                                        *)
(***************************************************************************)

\* pglite_signal_input_ready as it would be if it left read_offset alone.
pglite_signal_input_ready_keeps_offset(c, length) ==
    [c EXCEPT !.input.length = length,
              !.input.status = BUFFER_READY]

\* void pglite_signal_input_ready(uint32_t length)
pglite_signal_input_ready(c, length) ==
    [c EXCEPT !.input.length = length,
              !.input.status = BUFFER_READY,
              !.control.read_offset = 0]

\* pglite_reset_buffers as it would be with the cumulative counters left out.
pglite_reset_buffers_keeps_counters(c) ==
    [c EXCEPT !.input.status = BUFFER_EMPTY,
              !.input.length = 0,
              !.output.status = BUFFER_EMPTY,
              !.output.length = 0,
              !.control.operation = OP_NONE,
              !.control.error_code = 0,
              !.control.read_offset = 0]

\* void pglite_reset_buffers(void)
pglite_reset_buffers(c) ==
    [c EXCEPT !.input.status = BUFFER_EMPTY,
              !.input.length = 0,
              !.output.status = BUFFER_EMPTY,
              !.output.length = 0,
              !.control.operation = OP_NONE,
              !.control.error_code = 0,
              !.control.read_offset = 0,
              !.control.total_read = 0,
              !.control.total_written = 0]

\* int pglite_has_output(void)
pglite_has_output(c) == IF c.output.status = BUFFER_READY THEN 1 ELSE 0

\* uint32_t pglite_get_output_length(void)
pglite_get_output_length(c) == c.output.length

\* pglite_ack_output as it would be if it also restarted the count of
\* written bytes.
pglite_ack_output_restarts_count(c) ==
    [c EXCEPT !.output.status = BUFFER_EMPTY,
              !.output.length = 0,
              !.control.total_written = 0]

\* pglite_ack_output as it would be if it cleared the status alone.
pglite_ack_output_keeps_length(c) ==
    [c EXCEPT !.output.status = BUFFER_EMPTY]

\* pglite_ack_output as it would be if it cleared the length and left the
\* status as it was.
pglite_ack_output_keeps_status(c) ==
    [c EXCEPT !.output.length = 0]

\* pglite_ack_output as it would be if it also cleared control.operation.
pglite_ack_output_clears_operation(c) ==
    [c EXCEPT !.output.status = BUFFER_EMPTY,
              !.output.length = 0,
              !.control.operation = OP_NONE]

\* void pglite_ack_output(void)
pglite_ack_output(c) ==
    [c EXCEPT !.output.status = BUFFER_EMPTY,
              !.output.length = 0]

(***************************************************************************)
(* The stream adapter the engine calls.  read returns [chan, ret, out] and *)
(* write [chan, ret]: the channel after the call, the return value and     *)
(* the bytes copied to the caller's buffer.                                *)
(***************************************************************************)

\* pglite_polling_read as it would be if it copied from the start of the
\* data region instead of from read_offset.
pglite_polling_read_from_start(c, max_len) ==
    IF c.input.status # BUFFER_READY
    THEN [chan |-> c, ret |-> 0, out |-> <<>>]
    ELSE LET available == c.input.length - c.control.read_offset IN
         IF available = 0
         THEN [chan |-> [c EXCEPT !.input.status = BUFFER_EMPTY], ret |-> 0, out |-> <<>>]
         ELSE LET to_read == Min(max_len, available)
                  offset  == c.control.read_offset + to_read
                  c1      == [c EXCEPT !.control.read_offset = offset,
                                       !.control.total_read = @ + to_read]
                  c2      == IF offset >= c.input.length
                             THEN [c1 EXCEPT !.input.status = BUFFER_EMPTY]
                             ELSE c1
              IN [chan |-> c2,
                  ret  |-> to_read,
                  out  |-> Bytes(c.input.data, 0, to_read)]

\* pglite_polling_read as it would be if it returned all that is available,
\* whatever max_len is.
pglite_polling_read_ignores_max(c, max_len) ==
    IF c.input.status # BUFFER_READY
    THEN [chan |-> c, ret |-> 0, out |-> <<>>]
    ELSE LET available == c.input.length - c.control.read_offset IN
         IF available = 0
         THEN [chan |-> [c EXCEPT !.input.status = BUFFER_EMPTY], ret |-> 0, out |-> <<>>]
         ELSE LET to_read == available
                  offset  == c.control.read_offset + to_read
                  c1      == [c EXCEPT !.control.read_offset = offset,
                                       !.control.total_read = @ + to_read]
                  c2      == IF offset >= c.input.length
                             THEN [c1 EXCEPT !.input.status = BUFFER_EMPTY]
                             ELSE c1
              IN [chan |-> c2,
                  ret  |-> to_read,
                  out  |-> Bytes(c.input.data, c.control.read_offset, to_read)]

\* pglite_polling_read as it would be if it asked the host for input when
\* there is none.
pglite_polling_read_requests(c, max_len) ==
    IF c.input.status # BUFFER_READY
    THEN [chan |-> [c EXCEPT !.control.operation = OP_READ_REQUEST],
          ret |-> 0, out |-> <<>>]
    ELSE LET available == c.input.length - c.control.read_offset IN
         IF available = 0
         THEN [chan |-> [c EXCEPT !.input.status = BUFFER_EMPTY], ret |-> 0, out |-> <<>>]
         ELSE LET to_read == Min(max_len, available)
                  offset  == c.control.read_offset + to_read
                  c1      == [c EXCEPT !.control.read_offset = offset,
                                       !.control.total_read = @ + to_read]
                  c2      == IF offset >= c.input.length
                             THEN [c1 EXCEPT !.input.status = BUFFER_EMPTY]
                             ELSE c1
              IN [chan |-> c2,
                  ret  |-> to_read,
                  out  |-> Bytes(c.input.data, c.control.read_offset, to_read)]

\* pglite_polling_read as it would be if a read that copies no byte marked
\* the input Empty.
pglite_polling_read_empties_on_zero(c, max_len) ==
    IF c.input.status # BUFFER_READY
    THEN [chan |-> c, ret |-> 0, out |-> <<>>]
    ELSE LET available == c.input.length - c.control.read_offset IN
         IF available = 0 \/ max_len = 0
         THEN [chan |-> [c EXCEPT !.input.status = BUFFER_EMPTY], ret |-> 0, out |-> <<>>]
         ELSE LET to_read == Min(max_len, available)
                  offset  == c.control.read_offset + to_read
                  c1      == [c EXCEPT !.control.read_offset = offset,
                                       !.control.total_read = @ + to_read]
                  c2      == IF offset >= c.input.length
                             THEN [c1 EXCEPT !.input.status = BUFFER_EMPTY]
                             ELSE c1
              IN [chan |-> c2, ret |-> to_read,
                  out  |-> Bytes(c.input.data, c.control.read_offset, to_read)]

\* pglite_polling_read as it would be if it did not count the bytes read.
pglite_polling_read_uncounted(c, max_len) ==
    IF c.input.status # BUFFER_READY
    THEN [chan |-> c, ret |-> 0, out |-> <<>>]
    ELSE LET available == c.input.length - c.control.read_offset IN
         IF available = 0
         THEN [chan |-> [c EXCEPT !.input.status = BUFFER_EMPTY], ret |-> 0, out |-> <<>>]
         ELSE LET to_read == Min(max_len, available)
                  offset  == c.control.read_offset + to_read
                  c1      == [c EXCEPT !.control.read_offset = offset]
                  c2      == IF offset >= c.input.length
                             THEN [c1 EXCEPT !.input.status = BUFFER_EMPTY]
                             ELSE c1
              IN [chan |-> c2, ret |-> to_read,
                  out  |-> Bytes(c.input.data, c.control.read_offset, to_read)]

\* static ssize_t pglite_polling_read(void *buf, size_t max_len)
pglite_polling_read(c, max_len) ==
    IF c.input.status # BUFFER_READY
    THEN [chan |-> c, ret |-> 0, out |-> <<>>]
    ELSE LET available == c.input.length - c.control.read_offset IN
         IF available = 0
         THEN [chan |-> [c EXCEPT !.input.status = BUFFER_EMPTY], ret |-> 0, out |-> <<>>]
         ELSE LET to_read == Min(max_len, available)
                  offset  == c.control.read_offset + to_read
                  c1      == [c EXCEPT !.control.read_offset = offset,
                                       !.control.total_read = @ + to_read]
                  c2      == IF offset >= c.input.length
                             THEN [c1 EXCEPT !.input.status = BUFFER_EMPTY]
                             ELSE c1
              IN [chan |-> c2,
                  ret  |-> to_read,
                  out  |-> Bytes(c.input.data, c.control.read_offset, to_read)]

\* pglite_polling_write as it would be if the capacity test left out the
\* bytes already in the buffer.
pglite_polling_write_ignores_length(c, src, len) ==
    IF SizeGreater(len, PGLITE_BUFFER_SIZE)
    THEN [chan |-> [c EXCEPT !.output.status = BUFFER_READY,
                             !.control.operation = OP_WRITE_READY],
          ret  |-> -1]
    ELSE LET n == WordVal(len) IN
         [chan |-> [c EXCEPT !.output.data = CopyIn(@, c.output.length, src, n),
                             !.output.length = @ + n,
                             !.control.total_written = @ + n],
          ret  |-> n]

\* pglite_polling_write as it would be if it copied to the start of the data
\* region instead of behind the bytes already there.
pglite_polling_write_at_start(c, src, len) ==
    IF SizeGreater(SizeAdd(ToWord(c.output.length), len), PGLITE_BUFFER_SIZE)
    THEN [chan |-> [c EXCEPT !.output.status = BUFFER_READY,
                             !.control.operation = OP_WRITE_READY],
          ret  |-> -1]
    ELSE LET n == WordVal(len) IN
         [chan |-> [c EXCEPT !.output.data = CopyIn(@, 0, src, n),
                             !.output.length = @ + n,
                             !.control.total_written = @ + n],
          ret  |-> n]

\* pglite_polling_write as it would be if the capacity test looked at len
\* alone, not at the bytes already pending.
pglite_polling_write_tests_len_only(c, src, len) ==
    IF SizeGreater(len, PGLITE_BUFFER_SIZE)
    THEN [chan |-> [c EXCEPT !.output.status = BUFFER_READY,
                             !.control.operation = OP_WRITE_READY],
          ret  |-> -1]
    ELSE LET n == WordVal(len) IN
         [chan |-> [c EXCEPT !.output.data = CopyIn(@, c.output.length, src, n),
                             !.output.length = @ + n,
                             !.control.total_written = @ + n],
          ret  |-> n]

\* pglite_polling_write as it would be if a write that does not fit threw
\* the pending bytes away to make room.
pglite_polling_write_discards_pending(c, src, len) ==
    IF SizeGreater(SizeAdd(ToWord(c.output.length), len), PGLITE_BUFFER_SIZE)
    THEN [chan |-> [c EXCEPT !.output.status = BUFFER_EMPTY,
                             !.output.length = 0,
                             !.control.operation = OP_WRITE_READY],
          ret  |-> -1]
    ELSE LET n == WordVal(len) IN
         [chan |-> [c EXCEPT !.output.data = CopyIn(@, c.output.length, src, n),
                             !.output.length = @ + n,
                             !.control.total_written = @ + n],
          ret  |-> n]

\* pglite_polling_write as it would be if a write that exactly fills the
\* data region were refused.
pglite_polling_write_refuses_exact_fit(c, src, len) ==
    IF SizeGreater(SizeAdd(ToWord(c.output.length + 1), len), PGLITE_BUFFER_SIZE)
    THEN [chan |-> [c EXCEPT !.output.status = BUFFER_READY,
                             !.control.operation = OP_WRITE_READY],
          ret  |-> -1]
    ELSE LET n == WordVal(len) IN
         [chan |-> [c EXCEPT !.output.data = CopyIn(@, c.output.length, src, n),
                             !.output.length = @ + n,
                             !.control.total_written = @ + n],
          ret  |-> n]

\* static ssize_t pglite_polling_write(const void *buf, size_t len)
pglite_polling_write(c, src, len) ==
    IF SizeGreater(SizeAdd(ToWord(c.output.length), len), PGLITE_BUFFER_SIZE)
    THEN [chan |-> [c EXCEPT !.output.status = BUFFER_READY,
                             !.control.operation = OP_WRITE_READY],
          ret  |-> -1]
    ELSE LET n == WordVal(len) IN
         [chan |-> [c EXCEPT !.output.data = CopyIn(@, c.output.length, src, n),
                             !.output.length = @ + n,
                             !.control.total_written = @ + n],
          ret  |-> n]

\* pglite_polling_flush as it would be if it reported the request done.
pglite_polling_flush_completes(c) ==
    IF c.output.length > 0
    THEN [c EXCEPT !.output.status = BUFFER_READY,
                   !.control.operation = OP_COMPLETED]
    ELSE c

\* pglite_polling_flush as it would be without the test for pending bytes.
pglite_polling_flush_always(c) ==
    [c EXCEPT !.output.status = BUFFER_READY,
              !.control.operation = OP_WRITE_READY]

\* static void pglite_polling_flush(void)
pglite_polling_flush(c) ==
    IF c.output.length > 0
    THEN [c EXCEPT !.output.status = BUFFER_READY,
                   !.control.operation = OP_WRITE_READY]
    ELSE c

(***************************************************************************)
(* The state after construction: the statics are zero-initialised.         *)
(***************************************************************************)
Init ==
    /\ g_input_buffer = [status |-> BUFFER_EMPTY, length |-> 0, data |-> ZeroData]
    /\ g_output_buffer = [status |-> BUFFER_EMPTY, length |-> 0, data |-> ZeroData]
    /\ g_control = [operation |-> OP_NONE, error_code |-> 0, read_offset |-> 0,
                    total_read |-> 0, total_written |-> 0]
    /\ call = [op |-> "init", arg |-> 0]
    /\ result = 0
    /\ payload = <<>>
    /\ drained = <<>>
    /\ written = <<>>
    /\ InitTrampoline

\* The globals take the value of channel c.
Store(c) ==
    /\ g_input_buffer' = c.input
    /\ g_output_buffer' = c.output
    /\ g_control' = c.control

\* The cumulative counters of channel c are within the model's bound.
WithinTotal(c) == c.control.total_read + c.control.total_written <= MaxTotal

(***************************************************************************)
(* Actions: one call each.                                                 *)
(***************************************************************************)

\* The host copies payload p into the input data region and signals it.
SignalInputReady(p) ==
    /\ LET copied == [Channel EXCEPT !.input.data = CopyIn(@, 0, p, Len(p))]
       IN Store(pglite_signal_input_ready(copied, Len(p)))
    /\ call' = [op |-> "signal_input_ready", arg |-> Len(p)]
    /\ result' = 0
    /\ payload' = p
    /\ drained' = <<>>
    /\ UNCHANGED written
    /\ UNCHANGED trampoline

ResetBuffers ==
    /\ Store(pglite_reset_buffers(Channel))
    /\ call' = [op |-> "reset", arg |-> 0]
    /\ result' = 0
    /\ payload' = <<>>
    /\ drained' = <<>>
    /\ written' = <<>>
    /\ UNCHANGED trampoline

AckOutput ==
    /\ Store(pglite_ack_output(Channel))
    /\ call' = [op |-> "ack_output", arg |-> 0]
    /\ result' = 0
    /\ written' = <<>>
    /\ UNCHANGED <<payload, drained>>
    /\ UNCHANGED trampoline

Read(max_len) ==
    /\ LET r == pglite_polling_read(Channel, max_len) IN
         /\ WithinTotal(r.chan)
         /\ Store(r.chan)
         /\ result' = r.ret
         /\ drained' = drained \o r.out
    /\ call' = [op |-> "read", arg |-> max_len]
    /\ UNCHANGED <<payload, written>>
    /\ UNCHANGED trampoline

\* A write of the Len(src) bytes of src.
Write(src) ==
    /\ LET r == pglite_polling_write(Channel, src, ToWord(Len(src))) IN
         /\ WithinTotal(r.chan)
         /\ Store(r.chan)
         /\ result' = r.ret
         /\ written' = IF r.ret >= 0 THEN written \o src ELSE written
    /\ call' = [op |-> "write", arg |-> ToWord(Len(src))]
    /\ UNCHANGED <<payload, drained>>
    /\ UNCHANGED trampoline

\* A write of len bytes, len larger than the whole data region: the
\* capacity test rejects it before any byte of the source is looked at.
WriteLarge(len) ==
    /\ LET r == pglite_polling_write(Channel, <<>>, len) IN
         /\ Store(r.chan)
         /\ result' = r.ret
    /\ call' = [op |-> "write", arg |-> len]
    /\ UNCHANGED <<payload, drained, written>>
    /\ UNCHANGED trampoline

Flush ==
    /\ Store(pglite_polling_flush(Channel))
    /\ call' = [op |-> "flush", arg |-> 0]
    /\ result' = 0
    /\ UNCHANGED <<payload, drained, written>>
    /\ UNCHANGED trampoline

ReadLens == 0 .. (PGLITE_BUFFER_SIZE + 1)

LargeLens == {ToWord(PGLITE_BUFFER_SIZE + 1), PTRDIFF_MAX}

\* The byte strings that fit the data region: what the host signals and
\* what the engine writes.
FittingPayloads == Payloads(PGLITE_BUFFER_SIZE)

Next ==
    \/ \E p \in FittingPayloads : SignalInputReady(p)
    \/ ResetBuffers
    \/ AckOutput
    \/ \E m \in ReadLens : Read(m)
    \/ \E s \in FittingPayloads : Write(s)
    \/ \E n \in LargeLens : WriteLarge(n)
    \/ Flush

Spec == Init /\ [][Next]_vars

(***************************************************************************)
(* State functions used by the properties.  A step is told by the call it  *)
(* records: call' names the function and its length argument, result' the  *)
(* value returned.                                                         *)
(***************************************************************************)

\* The input bytes signalled and not yet read.
Unread == g_input_buffer.length - g_control.read_offset

\* output.data[0 .. output.length)
OutputBytes == Bytes(g_output_buffer.data, 0, g_output_buffer.length)

\* The bytes the step's read returned: what it added to drained.
Returned == SubSeq(drained', Len(drained) + 1, Len(drained'))

\* The bytes the step's write appended to the history of written bytes.
Appended == SubSeq(written', Len(written) + 1, Len(written'))

\* output.length + len > capacity, as numbers (no wrap), for a size_t len.
Exceeds(len) ==
    len.hi > 0 \/ g_output_buffer.length + len.lo > PGLITE_BUFFER_SIZE

\* The three globals are left as they are.
ChannelUnchanged == UNCHANGED <<g_input_buffer, g_output_buffer, g_control>>

(***************************************************************************)
(* C1  Round trip.  After signal_input_ready(L), L <= capacity, reads with *)
(* max_length >= 1 return the payload bytes in their original order (what  *)
(* has been returned is always a prefix of the payload, and each read      *)
(* returns as many bytes as its return value says); a read that returns 0  *)
(* finds all L bytes returned, so the returned lengths sum to L, and       *)
(* leaves the input buffer Empty.                                          *)
(***************************************************************************)
C1_RoundTrip ==
    [][ call'.op = "read" =>
          /\ drained' = drained \o Returned
          /\ IsPrefix(drained', payload')
          /\ Len(Returned) = result'
          /\ (call'.arg >= 1 /\ result' = 0) =>
                /\ drained' = payload
                /\ Len(drained') = Len(payload)
                /\ g_input_buffer'.status = BUFFER_EMPTY
      ]_vars

\* A full-capacity payload of differing bytes has been drained and the
\* closing read, with max_length >= 1, has returned 0.
C1_Witness ==
    /\ call.op = "read"
    /\ call.arg >= 1
    /\ result = 0
    /\ Len(payload) = PGLITE_BUFFER_SIZE
    /\ payload[1] # payload[2]
    /\ drained = payload
    /\ g_input_buffer.status = BUFFER_EMPTY

(***************************************************************************)
(* C2  Exactly-once, no-lost-bytes input delivery.  Without a reset, the   *)
(* bytes read returns are the signalled bytes, each once and in order      *)
(* (what has been returned of a payload is a prefix of it), and none is    *)
(* dropped: a payload is replaced by the next one only after all of its    *)
(* bytes have been returned.                                               *)
(***************************************************************************)
C2_ExactlyOnce ==
    [][ /\ IsPrefix(drained', payload')
        /\ (call'.op = "signal_input_ready" => drained = payload)
      ]_vars

(***************************************************************************)
(* C3  Overflow.  A write of length bytes with output.length + length >    *)
(* capacity copies nothing, returns -1, sets the output status to Ready    *)
(* and the operation to WriteReady, and leaves output.length,              *)
(* total_written and the bytes already written unchanged.                  *)
(***************************************************************************)
C3_Overflow ==
    [][ (call'.op = "write" /\ Exceeds(call'.arg)) =>
          /\ result' = -1
          /\ g_output_buffer'.status = BUFFER_READY
          /\ g_control'.operation = OP_WRITE_READY
          /\ g_output_buffer'.length = g_output_buffer.length
          /\ g_output_buffer'.data = g_output_buffer.data
          /\ g_control'.total_written = g_control.total_written
          /\ OutputBytes' = OutputBytes
          /\ written' = written
      ]_vars

\* A write that fits the empty buffer but not the space left has just been
\* refused while earlier bytes are pending.
C3_Witness ==
    /\ call.op = "write"
    /\ call.arg = ToWord(PGLITE_BUFFER_SIZE)
    /\ result = -1
    /\ g_output_buffer.length > 0
    /\ g_output_buffer.status = BUFFER_READY
    /\ g_control.operation = OP_WRITE_READY

(***************************************************************************)
(* C4  Append-only write.  A write of length bytes with output.length +    *)
(* length <= capacity returns length, places its bytes at                  *)
(* output.data[old_length .. old_length + length), advances output.length  *)
(* and total_written by length, and changes no byte below old_length,      *)
(* whatever the output status.                                             *)
(***************************************************************************)
C4_AppendOnly ==
    [][ (call'.op = "write" /\ ~Exceeds(call'.arg)) =>
          LET length == WordVal(call'.arg) IN
          /\ result' = length
          /\ written' = written \o Appended
          /\ Len(Appended) = length
          /\ Bytes(g_output_buffer'.data, g_output_buffer.length, length) = Appended
          /\ g_output_buffer'.length = g_output_buffer.length + length
          /\ g_control'.total_written = g_control.total_written + length
          /\ Bytes(g_output_buffer'.data, 0, g_output_buffer.length) = OutputBytes
      ]_vars

\* A one-byte write has been appended behind an earlier, different byte
\* while the output was already Ready.
C4_Witness ==
    /\ call.op = "write"
    /\ result = 1
    /\ g_output_buffer.length = 2
    /\ g_output_buffer.data[0] # g_output_buffer.data[1]
    /\ g_output_buffer.status = BUFFER_READY

(***************************************************************************)
(* C5  Partial read.  With L unread bytes ready, a read with               *)
(* 1 <= max_length < L returns the next max_length bytes of the payload,   *)
(* advances read_offset by max_length and leaves the input Ready; a read   *)
(* with max_length >= the remainder (>= 1) returns exactly the remaining   *)
(* bytes and sets the input status to Empty.                               *)
(***************************************************************************)
C5_PartialRead ==
    [][ ( /\ call'.op = "read"
          /\ call'.arg >= 1
          /\ g_input_buffer.status = BUFFER_READY
          /\ Unread >= 1 ) =>
          LET max_length == call'.arg
              offset == g_control.read_offset
          IN IF max_length < Unread
             THEN /\ result' = max_length
                  /\ Returned = SubSeq(payload, offset + 1, offset + max_length)
                  /\ drained' = drained \o Returned
                  /\ g_control'.read_offset = offset + max_length
                  /\ g_input_buffer'.status = BUFFER_READY
             ELSE /\ result' = Unread
                  /\ Returned = SubSeq(payload, offset + 1, Len(payload))
                  /\ drained' = drained \o Returned
                  /\ g_input_buffer'.status = BUFFER_EMPTY
      ]_vars

\* A payload has been drained in more than one read: the last read returned
\* a proper, non-empty part of it and emptied the input.
C5_Witness ==
    /\ call.op = "read"
    /\ result >= 1
    /\ result < Len(payload)
    /\ drained = payload
    /\ payload[1] # payload[2]
    /\ g_input_buffer.status = BUFFER_EMPTY

(***************************************************************************)
(* C6  Non-blocking read on no data.  A read while the input status is not *)
(* Ready returns 0 and changes nothing in the channel; a read on a Ready   *)
(* input with read_offset = input.length returns 0 and changes only the    *)
(* input status, to Empty.                                                 *)
(***************************************************************************)
C6_ReadNoData ==
    [][ call'.op = "read" =>
          /\ g_input_buffer.status # BUFFER_READY =>
                /\ result' = 0
                /\ drained' = drained
                /\ ChannelUnchanged
          /\ (g_input_buffer.status = BUFFER_READY /\ Unread = 0) =>
                /\ result' = 0
                /\ drained' = drained
                /\ g_input_buffer' = [g_input_buffer EXCEPT !.status = BUFFER_EMPTY]
                /\ UNCHANGED <<g_output_buffer, g_control>>
      ]_vars

\* A read has returned 0 on an input that an earlier read had emptied.
C6_Witness ==
    /\ call.op = "read"
    /\ call.arg >= 1
    /\ result = 0
    /\ payload # <<>>
    /\ drained = payload
    /\ g_input_buffer.status = BUFFER_EMPTY

(***************************************************************************)
(* C7  Flush.  With output.length > 0 flush sets the output status to      *)
(* Ready and the operation to WriteReady and leaves output.length and the  *)
(* output bytes unchanged; with output.length = 0 it changes nothing.      *)
(***************************************************************************)
C7_Flush ==
    [][ call'.op = "flush" =>
          IF g_output_buffer.length > 0
          THEN /\ g_output_buffer'.status = BUFFER_READY
               /\ g_control'.operation = OP_WRITE_READY
               /\ g_output_buffer'.length = g_output_buffer.length
               /\ g_output_buffer'.data = g_output_buffer.data
          ELSE ChannelUnchanged
      ]_vars

\* A flush has published pending output.
C7_Witness ==
    /\ call.op = "flush"
    /\ g_output_buffer.status = BUFFER_READY
    /\ g_output_buffer.length > 0
    /\ g_control.operation = OP_WRITE_READY

(***************************************************************************)
(* C8  Output visibility.  has_output() is true exactly when the output    *)
(* status is Ready, and whenever it is true                                *)
(* output.data[0 .. get_output_length()) is the concatenation, in call     *)
(* order, of the bytes of the successful writes since the last             *)
(* acknowledge_output or reset.                                            *)
(***************************************************************************)
C8_OutputVisible ==
    /\ (pglite_has_output(Channel) = 1) <=> (g_output_buffer.status = BUFFER_READY)
    /\ pglite_has_output(Channel) = 1 =>
          Bytes(g_output_buffer.data, 0, pglite_get_output_length(Channel)) = written

\* Output of several differing bytes is visible after an earlier batch was
\* acknowledged.
C8_Witness ==
    /\ pglite_has_output(Channel) = 1
    /\ Len(written) = PGLITE_BUFFER_SIZE
    /\ written[1] # written[2]
    /\ g_control.total_written > Len(written)

(***************************************************************************)
(* C9  Acknowledge idempotence.  Whenever has_output() is false,           *)
(* acknowledge_output is a no-op: the output stays Empty and the channel   *)
(* after the call, output length and pending output bytes included, is     *)
(* the channel before it.                                                  *)
(***************************************************************************)
C9_AckNoOp ==
    [][ (call'.op = "ack_output" /\ pglite_has_output(Channel) = 0) =>
          /\ g_output_buffer'.status = BUFFER_EMPTY
          /\ ChannelUnchanged
          /\ OutputBytes' = OutputBytes
      ]_vars

(***************************************************************************)
(* C10  Reset completeness.  reset leaves both buffers {Empty, length 0}   *)
(* and the control block {None, 0, 0, 0, 0}, so that has_output() is       *)
(* false, get_output_length() is 0 and both counters read 0; a read that   *)
(* follows it returns 0.                                                   *)
(***************************************************************************)
C10_ResetComplete ==
    [][ /\ call'.op = "reset" =>
              /\ g_input_buffer'.status = BUFFER_EMPTY
              /\ g_input_buffer'.length = 0
              /\ g_output_buffer'.status = BUFFER_EMPTY
              /\ g_output_buffer'.length = 0
              /\ g_control' = [operation |-> OP_NONE, error_code |-> 0,
                               read_offset |-> 0, total_read |-> 0,
                               total_written |-> 0]
              /\ pglite_has_output(Channel') = 0
              /\ pglite_get_output_length(Channel') = 0
        /\ (call.op = "reset" /\ call'.op = "read") =>
              /\ result' = 0
              /\ drained' = <<>>
              /\ ChannelUnchanged
      ]_vars

\* A reset has just cleared a channel both of whose data regions had been
\* used.
C10_Witness ==
    /\ call.op = "reset"
    /\ g_input_buffer.data # ZeroData
    /\ g_output_buffer.data # ZeroData
    /\ g_control.total_written = 0
    /\ g_output_buffer.length = 0

(***************************************************************************)
(* The channel when the host breaks signal_input_ready's precondition and  *)
(* signals a length larger than the input data region.  The function has   *)
(* no test of length, so the length is stored; a read that follows copies  *)
(* from input.data + read_offset up to that length, past the end of the    *)
(* array, and what lies there is not defined by the program.               *)
(***************************************************************************)

\* Bound: by how many bytes a signalled length exceeds the data region.
MaxBeyond == 1

\* The signalled lengths beyond the data region.
OverLens == (PGLITE_BUFFER_SIZE + 1) .. (PGLITE_BUFFER_SIZE + MaxBeyond)

\* The addresses after the end of input.data that a read can reach.
BeyondIndex == PGLITE_BUFFER_SIZE .. (PGLITE_BUFFER_SIZE + MaxBeyond - 1)

\* The host signals length bytes, more than the data region holds; the
\* data region holds what the host put there before.
SignalOutOfRange(length) ==
    /\ Store(pglite_signal_input_ready(Channel, length))
    /\ call' = [op |-> "signal_input_ready", arg |-> length]
    /\ result' = 0
    /\ payload' = Bytes(g_input_buffer.data, 0, PGLITE_BUFFER_SIZE)
    /\ drained' = <<>>
    /\ UNCHANGED written
    /\ UNCHANGED trampoline

\* A read while input.length is within the data region.
ReadInRange(max_len) ==
    /\ g_input_buffer.length <= PGLITE_BUFFER_SIZE
    /\ Read(max_len)

\* A read while input.length is beyond the data region: memcpy reads the
\* bytes after the array, whose values (beyond) are any at all.
ReadOutOfRange(max_len, beyond) ==
    /\ g_input_buffer.length > PGLITE_BUFFER_SIZE
    /\ LET memory == [i \in DataIndex \cup BeyondIndex |->
                          IF i \in DataIndex THEN g_input_buffer.data[i]
                                             ELSE beyond[i]]
           r == pglite_polling_read([Channel EXCEPT !.input.data = memory], max_len)
       IN /\ WithinTotal(r.chan)
          /\ Store([r.chan EXCEPT !.input.data = g_input_buffer.data])
          /\ result' = r.ret
          /\ drained' = drained \o r.out
    /\ call' = [op |-> "read", arg |-> max_len]
    /\ UNCHANGED <<payload, written>>
    /\ UNCHANGED trampoline

\* The input side of the channel; the output side plays no part in it.
NextOutOfRange ==
    \/ \E p \in FittingPayloads : SignalInputReady(p)
    \/ \E n \in OverLens : SignalOutOfRange(n)
    \/ ResetBuffers
    \/ \E m \in ReadLens : ReadInRange(m)
    \/ \E m \in ReadLens : \E beyond \in [BeyondIndex -> Byte] : ReadOutOfRange(m, beyond)

SpecOutOfRange == Init /\ [][NextOutOfRange]_vars

(***************************************************************************)
(* C11  Out-of-range signal.  signal_input_ready(length) with length       *)
(* larger than the capacity is rejected: it leaves input.length,           *)
(* input.status and read_offset as they were, so that no later read copies *)
(* from beyond the input data region (a read never moves read_offset past  *)
(* the capacity).                                                          *)
(***************************************************************************)
C11_OutOfRangeRejected ==
    [][ /\ (call'.op = "signal_input_ready" /\ call'.arg > PGLITE_BUFFER_SIZE) =>
              /\ g_input_buffer'.length = g_input_buffer.length
              /\ g_input_buffer'.status = g_input_buffer.status
              /\ g_control'.read_offset = g_control.read_offset
        /\ call'.op = "read" => g_control'.read_offset <= PGLITE_BUFFER_SIZE
      ]_vars

(***************************************************************************)
(* C12  Buffer length invariant.  In every state reached by reset,         *)
(* signal_input_ready (each length within the capacity), read, write,      *)
(* flush and acknowledge_output calls, 0 <= input.length <= capacity and   *)
(* 0 <= output.length <= capacity.                                         *)
(***************************************************************************)
C12_LengthInvariant ==
    /\ 0 <= g_input_buffer.length
    /\ g_input_buffer.length <= PGLITE_BUFFER_SIZE
    /\ 0 <= g_output_buffer.length
    /\ g_output_buffer.length <= PGLITE_BUFFER_SIZE

\* Both buffers are full and a write that would pass the capacity has just
\* been refused.
C12_Witness ==
    /\ g_input_buffer.length = PGLITE_BUFFER_SIZE
    /\ g_output_buffer.length = PGLITE_BUFFER_SIZE
    /\ call.op = "write"
    /\ WordVal(call.arg) = 1
    /\ result = -1

(***************************************************************************)
(* C13  Read cursor invariant.  In every reachable state                   *)
(* 0 <= read_offset <= input.length, so that input.length - read_offset,   *)
(* which read computes, is never negative.                                 *)
(***************************************************************************)
C13_ReadCursor ==
    /\ 0 <= g_control.read_offset
    /\ g_control.read_offset <= g_input_buffer.length
    /\ Unread >= 0

\* A read has moved the cursor into the payload and bytes remain unread.
C13_Witness ==
    /\ call.op = "read"
    /\ result > 0
    /\ 0 < g_control.read_offset
    /\ g_control.read_offset < g_input_buffer.length

C20_Handshake ==
    [][ /\ (g_output_buffer.status = BUFFER_READY /\ call'.op \notin {"ack_output", "reset"}) =>
              /\ g_output_buffer'.status = BUFFER_READY
              /\ g_output_buffer'.length >= g_output_buffer.length
        /\ (g_input_buffer.status # BUFFER_READY /\ g_input_buffer'.status = BUFFER_READY) =>
              call'.op = "signal_input_ready"
        /\ (g_input_buffer.status = BUFFER_READY /\ g_input_buffer'.status # BUFFER_READY) =>
              \/ call'.op = "reset"
              \/ /\ call'.op = "read"
                 /\ g_input_buffer'.status = BUFFER_EMPTY
                 /\ g_control'.read_offset = g_input_buffer'.length
      ]_vars

\* A read has drained the input while the output is Ready with bytes for
\* the host.
C20_Witness ==
    /\ call.op = "read"
    /\ result > 0
    /\ g_input_buffer.status = BUFFER_EMPTY
    /\ g_output_buffer.status = BUFFER_READY
    /\ g_output_buffer.length > 0

(***************************************************************************)
(* test-wasm.c: the test module.  It has its own copies of the three       *)
(* globals (g_input, g_output, g_control, with a data region of            *)
(* BUFFER_SIZE bytes) and of the channel functions, and on top of them the *)
(* two emitters of framed messages, process_message and process_multi_row. *)
(* In a behaviour of SpecTest the variables g_input_buffer,                *)
(* g_output_buffer and g_control hold the test module's g_input, g_output  *)
(* and g_control.                                                          *)
(***************************************************************************)

\* Bound: #define BUFFER_SIZE (64 * 1024), scaled down; two rows of
\* process_multi_row fit, three do not.
BUFFER_SIZE == 34

\* Bound: sizeof(local_buffer) in process_message (1024), scaled down.
LOCAL_BUFFER_SIZE == 5

\* Bound: the largest num_rows passed to process_multi_row.
MaxRows == 3

\* Bound: the most bytes read plus written between two resets.
MaxEmitted == 36

TestDataIndex == 0 .. (BUFFER_SIZE - 1)

TestZeroData == [i \in TestDataIndex |-> 0]

\* memcpy(data + at, src, n) for a data region of any size.
Memcpy(data, at, src, n) ==
    [i \in DOMAIN data |-> IF at <= i /\ i < at + n THEN src[i - at + 1] ELSE data[i]]

\* void reset_buffers(void)
reset_buffers(c) ==
    [c EXCEPT !.input.status = BUFFER_EMPTY,
              !.input.length = 0,
              !.output.status = BUFFER_EMPTY,
              !.output.length = 0,
              !.control.operation = OP_NONE,
              !.control.error_code = 0,
              !.control.read_offset = 0,
              !.control.total_read = 0,
              !.control.total_written = 0]

\* void signal_input_ready(uint32_t length)
signal_input_ready(c, length) ==
    [c EXCEPT !.input.length = length,
              !.input.status = BUFFER_READY,
              !.control.read_offset = 0]

\* int has_output(void)
has_output(c) == IF c.output.status = BUFFER_READY THEN 1 ELSE 0

\* uint32_t get_output_length(void)
get_output_length(c) == c.output.length

\* ack_output as it would be if it left the length as it was.
ack_output_keeps_length(c) ==
    [c EXCEPT !.output.status = BUFFER_EMPTY]

\* void ack_output(void)
ack_output(c) ==
    [c EXCEPT !.output.status = BUFFER_EMPTY,
              !.output.length = 0]

\* static ssize_t internal_read(void *buf, size_t max_len)
internal_read(c, max_len) ==
    IF c.input.status # BUFFER_READY
    THEN [chan |-> c, ret |-> 0, out |-> <<>>]
    ELSE LET available == c.input.length - c.control.read_offset IN
         IF available = 0
         THEN [chan |-> [c EXCEPT !.input.status = BUFFER_EMPTY], ret |-> 0, out |-> <<>>]
         ELSE LET to_read == Min(max_len, available)
                  offset  == c.control.read_offset + to_read
                  c1      == [c EXCEPT !.control.read_offset = offset,
                                       !.control.total_read = @ + to_read]
                  c2      == IF offset >= c.input.length
                             THEN [c1 EXCEPT !.input.status = BUFFER_EMPTY]
                             ELSE c1
              IN [chan |-> c2, ret |-> to_read,
                  out  |-> Bytes(c.input.data, c.control.read_offset, to_read)]

\* static ssize_t internal_write(const void *buf, size_t len), for a module
\* built with BUFFER_SIZE = size: len is a size_t and the sum of the capacity
\* test is computed in size_t arithmetic.
internal_write_sized(c, src, len, size) ==
    IF SizeGreater(SizeAdd(ToWord(c.output.length), len), size)
    THEN [chan |-> [c EXCEPT !.output.status = BUFFER_READY,
                             !.control.operation = OP_WRITE_READY],
          ret  |-> -1]
    ELSE LET n == WordVal(len) IN
         [chan |-> [c EXCEPT !.output.data = Memcpy(@, c.output.length, src, n),
                             !.output.length = @ + n,
                             !.control.total_written = @ + n],
          ret  |-> n]

\* internal_write as the test module calls it: its callers pass 5, at most
\* sizeof(local_buffer) - 1 and the length of a row text.
internal_write(c, src, len) == internal_write_sized(c, src, ToWord(len), BUFFER_SIZE)

\* static void internal_flush(void)
internal_flush(c) ==
    IF c.output.length > 0
    THEN [c EXCEPT !.output.status = BUFFER_READY,
                   !.control.operation = OP_WRITE_READY]
    ELSE c

\* The characters of the decimal numeral of n, as printf's %d writes it.
RECURSIVE Decimal(_)
Decimal(n) ==
    IF n < 0 THEN <<45>> \o Decimal(-n)
    ELSE IF n < 10 THEN <<48 + n>>
    ELSE Decimal(n \div 10) \o <<48 + (n % 10)>>

\* snprintf(row_data, sizeof(row_data), "Row %d of %d\n", i, num_rows): the
\* text, which for any two ints is shorter than the 64 bytes of row_data,
\* so that snprintf's return value is its length.
RowText(i, num_rows) ==
    <<82, 111, 119, 32>> \o Decimal(i) \o <<32, 111, 102, 32>> \o Decimal(num_rows) \o <<10>>

\* The loop of process_message over local_buffer: a byte in 'a' .. 'z'
\* becomes the byte - 'a' + 'A', any other byte stays.
ToUpperMissesZ(b) == IF b >= 97 /\ b < 122 THEN b - 97 + 65 ELSE b

ToUpper(b) == IF b >= 97 /\ b <= 122 THEN b - 97 + 65 ELSE b

\* The four length bytes of a header written least significant byte first.
FrameHeaderLittleEndian(tag, payload_len) ==
    LET len == payload_len + 4 IN
    <<tag, len % 256, (len \div 256) % 256, (len \div 65536) % 256,
      (len \div 16777216) % 256>>

\* uint8_t header[5]: the tag, then len = payload_len + 4 as four bytes,
\* most significant first.
FrameHeader(tag, payload_len) ==
    LET len == payload_len + 4 IN
    <<tag, (len \div 16777216) % 256, (len \div 65536) % 256,
      (len \div 256) % 256, len % 256>>

\* int process_message(void).  wrote: the bytes its writes appended.
process_message(c) ==
    LET r == internal_read(c, LOCAL_BUFFER_SIZE - 1) IN
    IF r.ret <= 0
    THEN [chan  |-> [r.chan EXCEPT !.control.error_code = -1,
                                   !.control.operation = OP_ERROR],
          ret   |-> -1, out |-> r.out, wrote |-> <<>>]
    ELSE LET local_buffer == [i \in 1 .. r.ret |-> ToUpper(r.out[i])]
             header == FrameHeader(82, r.ret)
             w1 == internal_write(r.chan, header, 5)
             w2 == internal_write(w1.chan, local_buffer, r.ret)
             c3 == internal_flush(w2.chan)
         IN [chan  |-> [c3 EXCEPT !.control.operation = OP_COMPLETED],
             ret   |-> 0,
             out   |-> r.out,
             wrote |-> (IF w1.ret >= 0 THEN header ELSE <<>>)
                       \o (IF w2.ret >= 0 THEN local_buffer ELSE <<>>)]

\* The loop of process_multi_row from row index i on, and what follows it.
RECURSIVE process_multi_row_from(_, _, _)
process_multi_row_from(c, i, num_rows) ==
    IF i < num_rows
    THEN LET row_data == RowText(i + 1, num_rows)
             len == Len(row_data)
             header == FrameHeader(68, len)
             w1 == internal_write(c, header, 5)
         IN IF w1.ret < 0
            THEN [chan  |-> [w1.chan EXCEPT !.control.error_code = -2,
                                            !.control.operation = OP_ERROR],
                  ret   |-> -1, wrote |-> <<>>]
            ELSE LET w2 == internal_write(w1.chan, row_data, len) IN
                 IF w2.ret < 0
                 THEN [chan  |-> [w2.chan EXCEPT !.control.error_code = -3,
                                                 !.control.operation = OP_ERROR],
                       ret   |-> -1, wrote |-> header]
                 ELSE LET rest == process_multi_row_from(w2.chan, i + 1, num_rows)
                      IN [rest EXCEPT !.wrote = header \o row_data \o @]
    ELSE [chan  |-> [internal_flush(c) EXCEPT !.control.operation = OP_COMPLETED],
          ret   |-> 0, wrote |-> <<>>]

\* int process_multi_row(int num_rows)
process_multi_row(c, num_rows) == process_multi_row_from(c, 0, num_rows)

\* main() calls reset_buffers() on the zero-initialised statics.
InitTest ==
    /\ g_input_buffer = [status |-> BUFFER_EMPTY, length |-> 0, data |-> TestZeroData]
    /\ g_output_buffer = [status |-> BUFFER_EMPTY, length |-> 0, data |-> TestZeroData]
    /\ g_control = [operation |-> OP_NONE, error_code |-> 0, read_offset |-> 0,
                    total_read |-> 0, total_written |-> 0]
    /\ call = [op |-> "init", arg |-> 0]
    /\ result = 0
    /\ payload = <<>>
    /\ drained = <<>>
    /\ written = <<>>
    /\ InitTrampoline

\* The cumulative counters of channel c are within the test module's bound.
WithinEmitted(c) == c.control.total_read + c.control.total_written <= MaxEmitted

\* The payloads the host signals to the test module: none, and the first
\* and the last lowercase letter between the bytes next to them.
TestPayloads == {<<>>, <<96, 97, 122, 123>>}

TestSignalInputReady(p) ==
    /\ LET copied == [Channel EXCEPT !.input.data = Memcpy(@, 0, p, Len(p))]
       IN Store(signal_input_ready(copied, Len(p)))
    /\ call' = [op |-> "signal_input_ready", arg |-> Len(p)]
    /\ result' = 0
    /\ payload' = p
    /\ drained' = <<>>
    /\ UNCHANGED written
    /\ UNCHANGED trampoline

TestResetBuffers ==
    /\ Store(reset_buffers(Channel))
    /\ call' = [op |-> "reset", arg |-> 0]
    /\ result' = 0
    /\ payload' = <<>>
    /\ drained' = <<>>
    /\ written' = <<>>
    /\ UNCHANGED trampoline

TestAckOutput ==
    /\ Store(ack_output(Channel))
    /\ call' = [op |-> "ack_output", arg |-> 0]
    /\ result' = 0
    /\ written' = <<>>
    /\ UNCHANGED <<payload, drained>>
    /\ UNCHANGED trampoline

ProcessMessage ==
    /\ LET r == process_message(Channel) IN
         /\ WithinEmitted(r.chan)
         /\ Store(r.chan)
         /\ result' = r.ret
         /\ drained' = drained \o r.out
         /\ written' = written \o r.wrote
    /\ call' = [op |-> "process_message", arg |-> 0]
    /\ UNCHANGED payload
    /\ UNCHANGED trampoline

ProcessMultiRow(num_rows) ==
    /\ LET r == process_multi_row(Channel, num_rows) IN
         /\ WithinEmitted(r.chan)
         /\ Store(r.chan)
         /\ result' = r.ret
         /\ written' = written \o r.wrote
    /\ call' = [op |-> "process_multi_row", arg |-> num_rows]
    /\ UNCHANGED <<payload, drained>>
    /\ UNCHANGED trampoline

RowCounts == 0 .. MaxRows

NextTest ==
    \/ \E p \in TestPayloads : TestSignalInputReady(p)
    \/ TestResetBuffers
    \/ TestAckOutput
    \/ ProcessMessage
    \/ \E n \in RowCounts : ProcessMultiRow(n)

SpecTest == InitTest /\ [][NextTest]_vars

(***************************************************************************)
(* The two modules side by side: a behaviour of SpecModules is a behaviour *)
(* of the channel of pglite-comm-polling.h or a behaviour of the test      *)
(* module.  The size of the data region tells which.                       *)
(***************************************************************************)
InHeaderModule == DOMAIN g_output_buffer.data = DataIndex

InitModules == Init \/ InitTest

NextModules ==
    \/ InHeaderModule /\ \E p \in FittingPayloads : SignalInputReady(p)
    \/ InHeaderModule /\ ResetBuffers
    \/ InHeaderModule /\ AckOutput
    \/ InHeaderModule /\ \E m \in ReadLens : Read(m)
    \/ InHeaderModule /\ \E s \in FittingPayloads : Write(s)
    \/ InHeaderModule /\ \E n \in LargeLens : WriteLarge(n)
    \/ InHeaderModule /\ Flush
    \/ ~InHeaderModule /\ \E p \in TestPayloads : TestSignalInputReady(p)
    \/ ~InHeaderModule /\ TestResetBuffers
    \/ ~InHeaderModule /\ TestAckOutput
    \/ ~InHeaderModule /\ ProcessMessage
    \/ ~InHeaderModule /\ \E n \in RowCounts : ProcessMultiRow(n)

SpecModules == InitModules /\ [][NextModules]_vars

(***************************************************************************)
(* C15  Reserved values.  In every reachable state both buffer statuses    *)
(* are Empty or Ready, never Processing, and control.operation is never    *)
(* ReadRequest; with the channel operations of pglite-comm-polling.h       *)
(* alone, operation is None or WriteReady.                                 *)
(***************************************************************************)
C15_ReservedUnused ==
    /\ g_input_buffer.status \in {BUFFER_EMPTY, BUFFER_READY}
    /\ g_output_buffer.status \in {BUFFER_EMPTY, BUFFER_READY}
    /\ g_input_buffer.status # BUFFER_PROCESSING
    /\ g_output_buffer.status # BUFFER_PROCESSING
    /\ g_control.operation \in {OP_NONE, OP_WRITE_READY, OP_COMPLETED, OP_ERROR}
    /\ g_control.operation # OP_READ_REQUEST
    /\ InHeaderModule => g_control.operation \in {OP_NONE, OP_WRITE_READY}

\* An emitter of the test module has failed on a full output buffer.
C15_Witness ==
    /\ ~InHeaderModule
    /\ call.op = "process_multi_row"
    /\ g_control.operation = OP_ERROR
    /\ g_output_buffer.status = BUFFER_READY

(***************************************************************************)
(* State functions used by the properties of the emitters.                 *)
(***************************************************************************)

\* The frame process_message builds for the bytes it read: the header of
\* tag 'R', then the bytes with the lowercase letters in upper case.
EchoFrame(bytes) ==
    FrameHeader(82, Len(bytes)) \o [i \in 1 .. Len(bytes) |-> ToUpper(bytes[i])]

\* The frames of rows i .. num_rows that process_multi_row(num_rows) builds.
RECURSIVE RowFrames(_, _)
RowFrames(i, num_rows) ==
    IF i > num_rows THEN <<>>
    ELSE FrameHeader(68, Len(RowText(i, num_rows))) \o RowText(i, num_rows)
         \o RowFrames(i + 1, num_rows)

\* All the bytes the emitter called in the step builds for the output.
Built ==
    IF call'.op = "process_message"
    THEN IF Returned = <<>> THEN <<>> ELSE EchoFrame(Returned)
    ELSE RowFrames(1, call'.arg)

(***************************************************************************)
(* C16  Emitter failure handling.  Whenever a write issued by              *)
(* process_message or process_multi_row fails mid-message, so that not all *)
(* the bytes the emitter builds get appended, the emitter aborts without   *)
(* further writes (what it appended is the part built before the failed    *)
(* write), returns -1 and leaves error_code negative and operation Error;  *)
(* so an emitter call that returns 0 with operation Completed has appended *)
(* every header and payload it built, complete and in order.               *)
(***************************************************************************)
C16_EmitterFailure ==
    [][ call'.op \in {"process_message", "process_multi_row"} =>
          /\ Appended # Built =>
                /\ result' = -1
                /\ g_control'.error_code < 0
                /\ g_control'.operation = OP_ERROR
                /\ IsPrefix(Appended, Built)
          /\ (result' = 0 /\ g_control'.operation = OP_COMPLETED) =>
                Appended = Built
      ]_vars

\* The byte strings a buffer content splits into when it is read as frames
\* of the given tag, each the tag, four bytes of length (most significant
\* first, counting themselves) and the payload; <<-1>> stands for bytes
\* that are not such a frame.
RECURSIVE ParseFrames(_, _)
ParseFrames(bytes, tag) ==
    IF bytes = <<>> THEN <<>>
    ELSE IF Len(bytes) < 5 \/ bytes[1] # tag THEN << <<-1>> >>
    ELSE LET len == bytes[2] * 16777216 + bytes[3] * 65536 + bytes[4] * 256 + bytes[5]
             payload_length == len - 4
         IN IF payload_length < 0 \/ 5 + payload_length > Len(bytes)
            THEN << <<-1>> >>
            ELSE << SubSeq(bytes, 6, 5 + payload_length) >>
                 \o ParseFrames(SubSeq(bytes, 6 + payload_length, Len(bytes)), tag)

\* The sum over rows i .. num_rows of 5 + the length of the row's text.
RECURSIVE RowsLength(_, _)
RowsLength(i, num_rows) ==
    IF i > num_rows THEN 0
    ELSE 5 + Len(RowText(i, num_rows)) + RowsLength(i + 1, num_rows)

(***************************************************************************)
(* C17  Framed multi-message.  From an empty output buffer,                *)
(* process_multi_row(n) whose n frames fit in the capacity returns 0 and   *)
(* leaves output.length equal to the sum over the rows of                  *)
(* 5 + payload_length, the status Ready when n >= 1, and contents that     *)
(* read as frames of tag 'D' give exactly the n row texts in the order of  *)
(* emission, with no byte left over.                                       *)
(***************************************************************************)
C17_FramedRows ==
    [][ ( /\ call'.op = "process_multi_row"
          /\ g_output_buffer.length = 0
          /\ RowsLength(1, call'.arg) <= BUFFER_SIZE ) =>
          /\ result' = 0
          /\ g_output_buffer'.length = RowsLength(1, call'.arg)
          /\ call'.arg >= 1 => g_output_buffer'.status = BUFFER_READY
          /\ ParseFrames(OutputBytes', 68) = [i \in 1 .. call'.arg |-> RowText(i, call'.arg)]
      ]_vars

\* process_multi_row(2) has put its two frames into an empty output buffer.
C17_Witness ==
    /\ call = [op |-> "process_multi_row", arg |-> 2]
    /\ result = 0
    /\ g_output_buffer.status = BUFFER_READY
    /\ g_output_buffer.length = 32
    /\ written = OutputBytes

(***************************************************************************)
(* C18  Echo.  On a reset channel, after signal_input_ready(L) with        *)
(* 1 <= L <= sizeof(local_buffer) - 1, process_message returns 0, leaves   *)
(* the input Empty and the output Ready with length L + 5: the tag 'R',    *)
(* the length L + 4 in four bytes, most significant first, then the L      *)
(* input bytes, each lowercase ASCII letter in upper case and every other  *)
(* byte as it was; operation is Completed, total_read = L and              *)
(* total_written = L + 5.                                                  *)
(***************************************************************************)
C18_Echo ==
    [][ ( /\ call'.op = "process_message"
          /\ call.op = "signal_input_ready"
          /\ call.arg >= 1
          /\ call.arg <= LOCAL_BUFFER_SIZE - 1
          /\ g_output_buffer.status = BUFFER_EMPTY
          /\ g_output_buffer.length = 0
          /\ g_control = [operation |-> OP_NONE, error_code |-> 0, read_offset |-> 0,
                          total_read |-> 0, total_written |-> 0] ) =>
          LET L == call.arg
              out == OutputBytes'
          IN /\ result' = 0
             /\ g_input_buffer'.status = BUFFER_EMPTY
             /\ g_output_buffer'.status = BUFFER_READY
             /\ g_output_buffer'.length = L + 5
             /\ out[1] = 82
             /\ out[2] * 16777216 + out[3] * 65536 + out[4] * 256 + out[5] = L + 4
             /\ \A i \in 1 .. L :
                   out[5 + i] = IF payload[i] \in 97 .. 122 THEN payload[i] - 32
                                                           ELSE payload[i]
             /\ g_control'.operation = OP_COMPLETED
             /\ g_control'.total_read = L
             /\ g_control'.total_written = L + 5
      ]_vars

\* process_message has echoed a payload of sizeof(local_buffer) - 1 bytes
\* signalled on a reset channel.
C18_Witness ==
    /\ call.op = "process_message"
    /\ result = 0
    /\ Len(payload) = LOCAL_BUFFER_SIZE - 1
    /\ drained = payload
    /\ g_control.total_read = LOCAL_BUFFER_SIZE - 1
    /\ g_control.total_written = LOCAL_BUFFER_SIZE + 4
    /\ g_output_buffer.length = LOCAL_BUFFER_SIZE + 4

\* The status, length and control fields are those of a channel just
\* constructed (the bytes of the data regions are not part of this: no
\* function clears them, and none reads them beyond the lengths).
FieldsInitial ==
    /\ g_input_buffer.status = BUFFER_EMPTY
    /\ g_input_buffer.length = 0
    /\ g_output_buffer.status = BUFFER_EMPTY
    /\ g_output_buffer.length = 0
    /\ g_control = [operation |-> OP_NONE, error_code |-> 0, read_offset |-> 0,
                    total_read |-> 0, total_written |-> 0]

\* A write of n bytes to the channel as it stands succeeds in full, in the
\* module the channel belongs to.
WriteSucceeds(n) ==
    LET src == [i \in 1 .. n |-> 0]
        w   == IF InHeaderModule
               THEN pglite_polling_write(Channel, src, ToWord(n))
               ELSE internal_write(Channel, src, n)
    IN /\ w.ret = n
       /\ w.chan.output.length = n
       /\ Bytes(w.chan.output.data, 0, n) = src

\* The capacity of the module the channel belongs to.
Capacity == IF InHeaderModule THEN PGLITE_BUFFER_SIZE ELSE BUFFER_SIZE

(***************************************************************************)
(* C19  Recoverability.  In any state, so also after a write refused for   *)
(* capacity or an emitter's protocol error, acknowledge_output leaves the  *)
(* output buffer {Empty, length 0}, and then a write of any length up to   *)
(* the capacity succeeds in full; reset leaves the status, length and      *)
(* control fields as they are initially.  So no failed write leaves the    *)
(* channel unable to write again.                                          *)
(***************************************************************************)
C19_Recoverable ==
    /\ call.op = "ack_output" =>
          /\ g_output_buffer.status = BUFFER_EMPTY
          /\ g_output_buffer.length = 0
          /\ \A n \in 0 .. Capacity : WriteSucceeds(n)
    /\ call.op = "reset" =>
          /\ FieldsInitial
          /\ \A n \in 0 .. Capacity : WriteSucceeds(n)

\* acknowledge_output has drained the output that a failed
\* process_multi_row left behind.
C19_Witness ==
    /\ call.op = "ack_output"
    /\ g_control.operation = OP_ERROR
    /\ g_control.error_code = -3
    /\ g_output_buffer.data # TestZeroData

(***************************************************************************)
(* C26  Zero-length read request.  A read with max_length = 0 while the    *)
(* input is Ready with unread bytes returns 0, copies nothing, leaves      *)
(* read_offset and total_read as they were and leaves the input Ready: a   *)
(* return value of 0 does not tell that the input buffer is Empty.         *)
(***************************************************************************)
C26_ZeroLengthRead ==
    [][ ( /\ call'.op = "read"
          /\ call'.arg = 0
          /\ g_input_buffer.status = BUFFER_READY
          /\ g_control.read_offset < g_input_buffer.length ) =>
          /\ result' = 0
          /\ Returned = <<>>
          /\ g_control'.read_offset = g_control.read_offset
          /\ g_control'.total_read = g_control.total_read
          /\ g_input_buffer'.status = BUFFER_READY
          /\ ChannelUnchanged
      ]_vars

\* A read of no byte has returned 0 and the input is Ready with a byte
\* unread, after another byte had been read.
C26_Witness ==
    /\ call = [op |-> "read", arg |-> 0]
    /\ result = 0
    /\ g_input_buffer.status = BUFFER_READY
    /\ g_control.read_offset > 0
    /\ Unread > 0

(***************************************************************************)
(* C28  Counter accounting.  total_read is the sum of the values read has  *)
(* returned since the last reset and total_written the sum of the values   *)
(* the successful writes have returned since then: a read adds its return  *)
(* value to total_read, a write adds its return value, when not negative,  *)
(* to total_written, reset sets both to 0 and no other call changes        *)
(* either.  So read_offset <= total_read and output.length <=              *)
(* total_written in every state.                                           *)
(***************************************************************************)
C28_CounterAccounting ==
    [][ /\ g_control'.total_read =
              IF call'.op = "reset" THEN 0
              ELSE IF call'.op = "read" THEN g_control.total_read + result'
              ELSE g_control.total_read
        /\ g_control'.total_written =
              IF call'.op = "reset" THEN 0
              ELSE IF call'.op = "write" /\ result' >= 0
                   THEN g_control.total_written + result'
              ELSE g_control.total_written
        /\ g_control'.read_offset <= g_control'.total_read
        /\ g_output_buffer'.length <= g_control'.total_written
      ]_vars

\* A read has returned bytes of a second payload while bytes written
\* earlier have been acknowledged: both counters are ahead of the cursor
\* and of the pending length.
C28_Witness ==
    /\ call.op = "read"
    /\ result > 0
    /\ g_control.read_offset < g_control.total_read
    /\ g_output_buffer.length < g_control.total_written

(***************************************************************************)
(* C29  Direction independence.  signal_input_ready and read leave the     *)
(* output buffer (status, length, data), control.operation,                *)
(* control.error_code and total_written unchanged; write, flush and        *)
(* acknowledge_output leave the input buffer (status, length, data),       *)
(* read_offset and total_read unchanged; acknowledge_output leaves the     *)
(* whole control block unchanged, so that control.operation can still be   *)
(* WriteReady after the output has been acknowledged.                      *)
(***************************************************************************)
C29_DirectionIndependence ==
    [][ /\ call'.op \in {"signal_input_ready", "read"} =>
              /\ g_output_buffer' = g_output_buffer
              /\ g_control'.operation = g_control.operation
              /\ g_control'.error_code = g_control.error_code
              /\ g_control'.total_written = g_control.total_written
        /\ call'.op \in {"write", "flush", "ack_output"} =>
              /\ g_input_buffer' = g_input_buffer
              /\ g_control'.read_offset = g_control.read_offset
              /\ g_control'.total_read = g_control.total_read
        /\ call'.op = "ack_output" => g_control' = g_control
      ]_vars

\* The output has been acknowledged and control.operation still reads
\* WriteReady.
C29_Witness ==
    /\ call.op = "ack_output"
    /\ g_control.operation = OP_WRITE_READY
    /\ g_output_buffer.status = BUFFER_EMPTY
    /\ g_output_buffer.length = 0
    /\ g_input_buffer.status = BUFFER_READY

\* C25 as stated: in every reachable state where has_output() is true,
\* get_output_length() is greater than 0.
C25_ReadyNeverEmpty ==
    pglite_has_output(Channel) = 1 => pglite_get_output_length(Channel) > 0

(***************************************************************************)
(* C25  Ready output.  In every reachable state where has_output() is true *)
(* get_output_length() is greater than 0, except after a write of more     *)
(* bytes than the capacity into an empty output buffer: that write returns *)
(* -1 and marks the output Ready with length 0, and the output stays so    *)
(* until it is acknowledged, reset or written to.  No other call makes an  *)
(* empty output Ready.                                                     *)
(***************************************************************************)
C25_ReadyEmptyOnlyAfterOverflow ==
    [][ ( /\ pglite_has_output(Channel') = 1
          /\ pglite_get_output_length(Channel') = 0 ) =>
          \/ /\ pglite_has_output(Channel) = 1
             /\ pglite_get_output_length(Channel) = 0
          \/ /\ call'.op = "write"
             /\ result' = -1
             /\ SizeGreater(call'.arg, PGLITE_BUFFER_SIZE)
             /\ g_output_buffer.length = 0
      ]_vars

\* A write of more bytes than the capacity has been refused on an empty
\* output buffer, which is now Ready with length 0.
C25_Witness ==
    /\ call.op = "write"
    /\ result = -1
    /\ pglite_has_output(Channel) = 1
    /\ pglite_get_output_length(Channel) = 0

(***************************************************************************)
(* The socket overrides of a build with PGLITE_USE_POLLING: the engine's   *)
(* recv and send go to the channel.  The descriptor and the flags are not  *)
(* looked at.                                                              *)
(***************************************************************************)

\* ssize_t recv(int __fd, void *__buf, size_t __n, int __flags)
recv(c, n) == pglite_polling_read(c, n)

\* send as it would be if it left the flush to its caller.
send_without_flush(c, src, n) == pglite_polling_write(c, src, n)

\* ssize_t send(int __fd, const void *__buf, size_t __n, int __flags)
send(c, src, n) ==
    LET w == pglite_polling_write(c, src, n)
    IN [chan |-> pglite_polling_flush(w.chan), ret |-> w.ret]

Recv(n) ==
    /\ LET r == recv(Channel, n) IN
         /\ WithinTotal(r.chan)
         /\ Store(r.chan)
         /\ result' = r.ret
         /\ drained' = drained \o r.out
    /\ call' = [op |-> "recv", arg |-> n]
    /\ UNCHANGED <<payload, written>>
    /\ UNCHANGED trampoline

\* A send of the Len(src) bytes of src.
Send(src) ==
    /\ LET r == send(Channel, src, ToWord(Len(src))) IN
         /\ WithinTotal(r.chan)
         /\ Store(r.chan)
         /\ result' = r.ret
         /\ written' = IF r.ret >= 0 THEN written \o src ELSE written
    /\ call' = [op |-> "send", arg |-> ToWord(Len(src))]
    /\ UNCHANGED <<payload, drained>>
    /\ UNCHANGED trampoline

\* A send of n bytes, n larger than the whole data region.
SendLarge(n) ==
    /\ LET r == send(Channel, <<>>, n) IN
         /\ Store(r.chan)
         /\ result' = r.ret
    /\ call' = [op |-> "send", arg |-> n]
    /\ UNCHANGED <<payload, drained, written>>
    /\ UNCHANGED trampoline

\* The engine of such a build reaches the channel through recv and send
\* only; the host's calls are the same.
NextSend ==
    \/ \E p \in FittingPayloads : SignalInputReady(p)
    \/ ResetBuffers
    \/ AckOutput
    \/ \E m \in ReadLens : Recv(m)
    \/ \E s \in FittingPayloads : Send(s)
    \/ \E n \in LargeLens : SendLarge(n)

SpecSend == Init /\ [][NextSend]_vars

(***************************************************************************)
(* C21  send under PGLITE_USE_POLLING writes and then flushes.  It returns *)
(* what the write returns: n when output.length + n <= capacity, else -1.  *)
(* After send the output status is Ready whenever output.length > 0 or the *)
(* write overflowed, and a send that returned n > 0 has made its bytes     *)
(* visible to has_output() without any separate flush: the pending output  *)
(* ends with the bytes sent.                                               *)
(***************************************************************************)
C21_SendFlushes ==
    [][ call'.op = "send" =>
          /\ result' = IF Exceeds(call'.arg) THEN -1 ELSE WordVal(call'.arg)
          /\ (g_output_buffer'.length > 0 \/ result' = -1) =>
                 g_output_buffer'.status = BUFFER_READY
          /\ result' > 0 =>
                 /\ pglite_has_output(Channel') = 1
                 /\ pglite_get_output_length(Channel') =
                        g_output_buffer.length + result'
                 /\ Bytes(g_output_buffer'.data, g_output_buffer.length, result')
                        = Appended
          /\ g_output_buffer'.status # BUFFER_READY =>
                 /\ result' = 0
                 /\ g_output_buffer'.length = 0
      ]_vars

\* A send of one byte has returned 1 on an output buffer that had been
\* acknowledged, and the byte is visible to the host.
C21_Witness ==
    /\ call.op = "send"
    /\ result = 1
    /\ g_output_buffer.status = BUFFER_READY
    /\ g_output_buffer.length = 1
    /\ g_control.total_written = 2

(***************************************************************************)
(* Writes whose length makes the 32-bit sum of the capacity test wrap.     *)
(* With k bytes pending and len = 2^32 - j, 1 <= j <= k, the sum           *)
(* output.length + len is k - j, the test passes and memcpy is called with *)
(* a length that no object has: undefined behaviour.  On wasm32 the copy   *)
(* runs into the end of the linear memory and traps, so the call does not  *)
(* return; depending on how the build copies (one bulk memory.copy, which  *)
(* tests the bounds first, or a loop), nothing has been stored by then or  *)
(* the bytes from data[length] up have been overwritten with whatever       *)
(* followed the source, the control block placed after the buffer          *)
(* included.  The lines that add len to the length and to total_written    *)
(* are not reached.                                                        *)
(***************************************************************************)
WrapLens == {Word(HALF - 1, HALF - j) : j \in 1 .. PGLITE_BUFFER_SIZE}

\* The capacity test of write lets len through though output.length + len,
\* as numbers, is beyond the capacity.
pglite_polling_write_wraps(c, len) ==
    /\ len.hi > 0
    /\ ~SizeGreater(SizeAdd(ToWord(c.output.length), len), PGLITE_BUFFER_SIZE)

\* The values a control block overwritten by the copy can hold, within the
\* model's bound on the counters.
OverwrittenControls ==
    {k \in [operation : {OP_NONE, OP_WRITE_READY, OP_ERROR},
            error_code : {0, -1},
            read_offset : 0 .. PGLITE_BUFFER_SIZE,
            total_read : 0 .. MaxTotal,
            total_written : 0 .. MaxTotal] :
        k.total_read + k.total_written <= MaxTotal}

\* The channels the trapped copy can leave behind.
pglite_polling_write_trapped(c) ==
    {[c EXCEPT !.output.data = d, !.control = k] :
        d \in {e \in [DataIndex -> Byte] :
                  \A i \in DataIndex : i < c.output.length => e[i] = c.output.data[i]},
        k \in {c.control} \cup OverwrittenControls}

\* A write with a wrapping length: the call traps and returns nothing.
WriteWrapping(len) ==
    /\ pglite_polling_write_wraps(Channel, len)
    /\ \E c \in pglite_polling_write_trapped(Channel) : Store(c)
    /\ call' = [op |-> "write", arg |-> len, trap |-> TRUE]
    /\ UNCHANGED <<result, payload, drained, written>>
    /\ UNCHANGED trampoline

NextWrap ==
    \/ ResetBuffers
    \/ AckOutput
    \/ \E s \in FittingPayloads : Write(s)
    \/ \E n \in LargeLens : WriteLarge(n)
    \/ Flush
    \/ \E n \in WrapLens : WriteWrapping(n)

SpecWrap == Init /\ [][NextWrap]_vars

(***************************************************************************)
(* C22  Overflow check under 32-bit arithmetic.  For every 32-bit length   *)
(* argument, a write that does not fit (output.length + length, as         *)
(* numbers, beyond the capacity) is caught by the capacity test, returns   *)
(* -1 and copies nothing, and a write that fits leaves output.length       *)
(* within the capacity: no length makes the sum wrap so that the test      *)
(* passes for a write that does not fit.                                   *)
(***************************************************************************)
C22_NoWrap ==
    [][ call'.op = "write" =>
          IF Exceeds(call'.arg)
          THEN /\ SizeGreater(SizeAdd(ToWord(g_output_buffer.length), call'.arg),
                              PGLITE_BUFFER_SIZE)
               /\ DOMAIN call' = {"op", "arg"}
               /\ result' = -1
               /\ g_output_buffer'.data = g_output_buffer.data
               /\ g_output_buffer'.length = g_output_buffer.length
          ELSE g_output_buffer'.length <= PGLITE_BUFFER_SIZE
      ]_vars

(***************************************************************************)
(* C23  The test module's channel is step for step the header's.  The two  *)
(* are built with the same capacity (BUFFER_SIZE and PGLITE_BUFFER_SIZE    *)
(* are both 64 * 1024) and start in the same reset state; whenever the     *)
(* header's channel takes a step, the test module's function of the same   *)
(* name, applied to the same state with the same arguments, gives the same *)
(* return value, the same bytes read and the same statuses, lengths, data  *)
(* and control fields, and has_output and get_output_length answer alike   *)
(* afterwards.  So the two channels, run side by side on the same calls,   *)
(* never come apart.                                                       *)
(***************************************************************************)
C23_TestModuleEquivalent ==
    [][ /\ call'.op = "reset" => reset_buffers(Channel) = Channel'
        /\ call'.op = "signal_input_ready" =>
              signal_input_ready(
                  [Channel EXCEPT !.input.data = Memcpy(@, 0, payload', Len(payload'))],
                  call'.arg) = Channel'
        /\ call'.op = "ack_output" => ack_output(Channel) = Channel'
        /\ call'.op = "read" =>
              LET r == internal_read(Channel, call'.arg) IN
                /\ r.chan = Channel'
                /\ r.ret = result'
                /\ r.out = Returned
        /\ call'.op = "write" =>
              LET r == internal_write_sized(Channel, Appended, call'.arg,
                                            PGLITE_BUFFER_SIZE) IN
                /\ r.chan = Channel'
                /\ r.ret = result'
        /\ call'.op = "flush" => internal_flush(Channel) = Channel'
        /\ has_output(Channel') = pglite_has_output(Channel')
        /\ get_output_length(Channel') = pglite_get_output_length(Channel')
      ]_vars

\* After a read of part of the input and a refused write on a full output
\* buffer both modules still answer alike: one more byte can be read, no
\* byte can be written, and acknowledging empties the output.
C23_Witness ==
    /\ call.op = "write"
    /\ result = -1
    /\ g_control.read_offset > 0
    /\ internal_read(Channel, 1).ret = 1
    /\ internal_write_sized(Channel, <<0>>, ToWord(1), PGLITE_BUFFER_SIZE).ret = -1
    /\ has_output(Channel) = 1
    /\ get_output_length(ack_output(Channel)) = 0

\* The emitter call of the step has failed: process_message found no input,
\* or a write of the emitter was refused, so that not all the bytes built
\* were appended.
EmitterFailed ==
    /\ call'.op \in {"process_message", "process_multi_row"}
    /\ \/ call'.op = "process_message" /\ Returned = <<>>
       \/ Appended # Built

(***************************************************************************)
(* C27  Error code consistency in the test module.  Whenever               *)
(* control.operation is Error, control.error_code is -1 (process_message   *)
(* found no input), -2 (a row header write failed) or -3 (a row payload    *)
(* write failed); error_code = 0 implies that no emitter call has failed   *)
(* since the last reset: a failing emitter call leaves error_code nonzero  *)
(* and only reset makes it 0 again; and error_code is changed only by      *)
(* reset and by a failing emitter call.                                    *)
(***************************************************************************)
C27_ErrorCodeConsistent ==
    [][ /\ g_control'.operation = OP_ERROR => g_control'.error_code \in {-1, -2, -3}
        /\ EmitterFailed => g_control'.error_code # 0
        /\ (g_control.error_code # 0 /\ call'.op # "reset") =>
               g_control'.error_code # 0
        /\ g_control'.error_code # g_control.error_code =>
               call'.op = "reset" \/ EmitterFailed
      ]_vars

(***************************************************************************)
(* The pointer-table transport of pglite-trampoline.h.  The host stores    *)
(* two indices of the function table with set_trampoline_callbacks; the    *)
(* engine's reads and writes go through EM_JS trampolines that look the    *)
(* index up with wasmTable.get and call what they find.  A call of the     *)
(* transport gives [ret, throws, invoked]: its return value, whether the   *)
(* lookup threw instead (wasmTable.get of an index outside the table       *)
(* throws a RangeError, and the call does not return), and the callback    *)
(* invocations it made.  r is what the callback returns if it is invoked.  *)
(***************************************************************************)

\* Bound: the largest index the host passes to set_trampoline_callbacks;
\* one more than the last index of the table.
MaxFptr == 3

\* Bound: the largest length passed to a read or a write of the transport,
\* and the largest byte count a callback returns.
MaxLength == 1

Fptrs == 0 .. MaxFptr

\* The addresses of the caller's buffers.
Buffers == {1024, 2048}

TrampolineLens == 0 .. MaxLength

\* What a callback returns: a byte count or -1.
CallbackResults == -1 .. MaxLength

\* EM_JS(int, pglite_read_trampoline, (uint32_t fptr, void* buffer, size_t max_length))
pglite_read_trampoline(table, fptr, buffer, max_length, r) ==
    IF fptr \notin DOMAIN table
    THEN [ret |-> 0, throws |-> TRUE, invoked |-> <<>>]
    ELSE IF table[fptr] = NULL
    THEN [ret |-> -1, throws |-> FALSE, invoked |-> <<>>]
    ELSE [ret |-> r, throws |-> FALSE,
          invoked |-> << [fptr |-> fptr, buffer |-> buffer, length |-> max_length,
                          ret |-> r] >>]

\* EM_JS(int, pglite_write_trampoline, (uint32_t fptr, void* buffer, size_t length))
pglite_write_trampoline(table, fptr, buffer, length, r) ==
    IF fptr \notin DOMAIN table
    THEN [ret |-> 0, throws |-> TRUE, invoked |-> <<>>]
    ELSE IF table[fptr] = NULL
    THEN [ret |-> -1, throws |-> FALSE, invoked |-> <<>>]
    ELSE [ret |-> r, throws |-> FALSE,
          invoked |-> << [fptr |-> fptr, buffer |-> buffer, length |-> length,
                          ret |-> r] >>]

\* void set_trampoline_callbacks(uint32_t read_fptr, uint32_t write_fptr):
\* the two indices it stores.
set_trampoline_callbacks(read_fptr, write_fptr) ==
    [read_fptr |-> read_fptr, write_fptr |-> write_fptr]

\* static inline ssize_t pglite_trampoline_read(void* buffer, size_t max_length)
pglite_trampoline_read(read_fptr, table, buffer, max_length, r) ==
    IF read_fptr = 0
    THEN [ret |-> -1, throws |-> FALSE, invoked |-> <<>>]
    ELSE pglite_read_trampoline(table, read_fptr, buffer, max_length, r)

\* pglite_trampoline_write as it would be if it called on whenever the
\* stored index is within the table, without testing it for 0 and without
\* the trampoline's test of the slot.
pglite_trampoline_write_unguarded(write_fptr, table, buffer, length, r) ==
    IF write_fptr \notin DOMAIN table
    THEN [ret |-> 0, throws |-> TRUE, invoked |-> <<>>]
    ELSE [ret |-> r, throws |-> FALSE,
          invoked |-> << [fptr |-> write_fptr, buffer |-> buffer, length |-> length,
                          ret |-> r] >>]

\* static inline ssize_t pglite_trampoline_write(void* buffer, size_t length)
pglite_trampoline_write(write_fptr, table, buffer, length, r) ==
    IF write_fptr = 0
    THEN [ret |-> -1, throws |-> FALSE, invoked |-> <<>>]
    ELSE pglite_write_trampoline(table, write_fptr, buffer, length, r)

\* The polling channel, which this transport does not have, and its
\* history stay as they are.
NoChannel ==
    UNCHANGED <<g_input_buffer, g_output_buffer, g_control, payload, drained, written>>

\* The host puts a function into a reserved slot of the table, or empties
\* the slot.
PopulateSlot(slot, f) ==
    /\ wasmTable' = [wasmTable EXCEPT ![slot] = f]
    /\ call' = [op |-> "populate_slot", arg |-> slot]
    /\ result' = 0
    /\ invoked' = <<>>
    /\ UNCHANGED <<g_pglite_read_fptr, g_pglite_write_fptr>>
    /\ NoChannel

SetTrampolineCallbacks(read_fptr, write_fptr) ==
    /\ LET t == set_trampoline_callbacks(read_fptr, write_fptr) IN
         /\ g_pglite_read_fptr' = t.read_fptr
         /\ g_pglite_write_fptr' = t.write_fptr
    /\ call' = [op |-> "set_trampoline_callbacks", arg |-> <<read_fptr, write_fptr>>]
    /\ result' = 0
    /\ invoked' = <<>>
    /\ UNCHANGED wasmTable
    /\ NoChannel

\* A read of the transport.  When the lookup throws nothing is returned.
TrampolineRead(buffer, max_length, r) ==
    /\ LET t == pglite_trampoline_read(g_pglite_read_fptr, wasmTable, buffer,
                                       max_length, r) IN
         /\ invoked' = t.invoked
         /\ IF t.throws
            THEN /\ call' = [op |-> "pglite_trampoline_read", arg |-> max_length,
                             buffer |-> buffer, trap |-> TRUE]
                 /\ UNCHANGED result
            ELSE /\ call' = [op |-> "pglite_trampoline_read", arg |-> max_length,
                             buffer |-> buffer]
                 /\ result' = t.ret
    /\ UNCHANGED <<g_pglite_read_fptr, g_pglite_write_fptr, wasmTable>>
    /\ NoChannel

\* A write of the transport.
TrampolineWrite(buffer, length, r) ==
    /\ LET t == pglite_trampoline_write(g_pglite_write_fptr, wasmTable, buffer,
                                        length, r) IN
         /\ invoked' = t.invoked
         /\ IF t.throws
            THEN /\ call' = [op |-> "pglite_trampoline_write", arg |-> length,
                             buffer |-> buffer, trap |-> TRUE]
                 /\ UNCHANGED result
            ELSE /\ call' = [op |-> "pglite_trampoline_write", arg |-> length,
                             buffer |-> buffer]
                 /\ result' = t.ret
    /\ UNCHANGED <<g_pglite_read_fptr, g_pglite_write_fptr, wasmTable>>
    /\ NoChannel

NextTrampoline ==
    \/ \E slot \in {PGLITE_READ_SLOT, PGLITE_WRITE_SLOT} : \E f \in {NULL, FUNC} :
          PopulateSlot(slot, f)
    \/ \E rf \in Fptrs : \E wf \in Fptrs : SetTrampolineCallbacks(rf, wf)
    \/ \E b \in Buffers : \E n \in TrampolineLens : \E r \in CallbackResults :
          TrampolineRead(b, n, r)
    \/ \E b \in Buffers : \E n \in TrampolineLens : \E r \in CallbackResults :
          TrampolineWrite(b, n, r)

SpecTrampoline == Init /\ [][NextTrampoline]_vars

\* The index the transport call of the step goes through.
StoredFptr ==
    IF call'.op = "pglite_trampoline_read" THEN g_pglite_read_fptr
    ELSE g_pglite_write_fptr

\* The transport call of the step has returned (the lookup did not throw).
Returned24 == DOMAIN call' = {"op", "arg", "buffer"}

\* The transport call of the step has invoked the function at the stored
\* index exactly once, with the caller's buffer and length, and returned
\* its result unchanged.
InvokedOnce ==
    /\ Returned24
    /\ Len(invoked') = 1
    /\ invoked'[1].fptr = StoredFptr
    /\ invoked'[1].buffer = call'.buffer
    /\ invoked'[1].length = call'.arg
    /\ result' = invoked'[1].ret

\* The transport call of the step has returned -1 with no callback invoked.
ReturnedError ==
    /\ Returned24
    /\ result' = -1
    /\ invoked' = <<>>

\* C24 as stated: while the stored index is 0 a read or write returns -1
\* and invokes nothing, and with a nonzero stored index it invokes the
\* function at that index exactly once and returns its result.
C24_NonzeroInvokes ==
    [][ call'.op \in {"pglite_trampoline_read", "pglite_trampoline_write"} =>
          IF StoredFptr = 0 THEN ReturnedError ELSE InvokedOnce
      ]_vars

(***************************************************************************)
(* C24  Pointer-table trampoline.  set_trampoline_callbacks(r, w) stores   *)
(* r and w.  pglite_trampoline_read / pglite_trampoline_write return -1    *)
(* without invoking any callback while the stored index is 0 (initially,   *)
(* and after 0 has been stored).  With a nonzero stored index the call     *)
(* looks the most recently stored index up in the function table: when the *)
(* slot holds a function, that function is invoked exactly once with the   *)
(* caller's buffer and length and its result is returned unchanged; when   *)
(* the slot is empty, the call returns -1 and invokes nothing; when the    *)
(* index is outside the table, the lookup throws, nothing is invoked and   *)
(* the call does not return.                                               *)
(***************************************************************************)
C24_TrampolineDispatch ==
    [][ /\ call'.op = "set_trampoline_callbacks" =>
              /\ g_pglite_read_fptr' = call'.arg[1]
              /\ g_pglite_write_fptr' = call'.arg[2]
        /\ call'.op \in {"pglite_trampoline_read", "pglite_trampoline_write"} =>
              /\ UNCHANGED <<g_pglite_read_fptr, g_pglite_write_fptr>>
              /\ IF StoredFptr = 0 THEN ReturnedError
                 ELSE IF StoredFptr \notin DOMAIN wasmTable
                      THEN ~Returned24 /\ invoked' = <<>>
                 ELSE IF wasmTable[StoredFptr] = NULL THEN ReturnedError
                 ELSE InvokedOnce
      ]_vars

\* A write has gone through the function in the write slot, stored after
\* other indices, while the read index is back at 0: the function was
\* invoked once and its result 1 returned.
C24_Witness ==
    /\ call.op = "pglite_trampoline_write"
    /\ g_pglite_read_fptr = 0
    /\ g_pglite_write_fptr = PGLITE_WRITE_SLOT
    /\ wasmTable[PGLITE_WRITE_SLOT] = FUNC
    /\ Len(invoked) = 1
    /\ invoked[1].fptr = PGLITE_WRITE_SLOT
    /\ result = 1

====
